---- MODULE Spec2Model ----
(***************************************************************************)
(* Lumi: the task protocol of the agents (a2a executors), the safety       *)
(* engine behind the Safety executor, and the orchestrator's tools.        *)
(*                                                                         *)
(* Texts that the code lower-cases, searches, concatenates or parses are   *)
(* sequences of one-character strings, so that str.lower, the `in` test,   *)
(* json.dumps and json.loads are computed and not assumed.                 *)
(***************************************************************************)
EXTENDS Naturals, Sequences, FiniteSets

----------------------------------------------------------------------------
(* Characters and str.lower                                                *)

UpperChars ==
  <<"A","B","C","D","E","F","G","H","I","J","K","L","M",
    "N","O","P","Q","R","S","T","U","V","W","X","Y","Z">>

LowerChars ==
  <<"a","b","c","d","e","f","g","h","i","j","k","l","m",
    "n","o","p","q","r","s","t","u","v","w","x","y","z">>

\* str.lower on one character
LowerChar(c) ==
  IF \E i \in DOMAIN UpperChars : UpperChars[i] = c
  THEN LowerChars[CHOOSE i \in DOMAIN UpperChars : UpperChars[i] = c]
  ELSE c

\* text.lower()
Lower(text) == [i \in 1..Len(text) |-> LowerChar(text[i])]

\* word in text: word occurs as a contiguous substring
Contains(text, word) ==
  \E i \in 0..Len(text) :
     /\ i + Len(word) <= Len(text)
     /\ \A j \in 1..Len(word) : text[i + j] = word[j]

----------------------------------------------------------------------------
(* safety/server.py: the keyword tool and the emergency context            *)

\* crisis_keywords, in declaration order:
\* "fall", "fell", "chest pain", "hurt myself", "suicide", "emergency", "blood", "help me"
crisis_keywords ==
  << <<"f","a","l","l">>,
     <<"f","e","l","l">>,
     <<"c","h","e","s","t"," ","p","a","i","n">>,
     <<"h","u","r","t"," ","m","y","s","e","l","f">>,
     <<"s","u","i","c","i","d","e">>,
     <<"e","m","e","r","g","e","n","c","y">>,
     <<"b","l","o","o","d">>,
     <<"h","e","l","p"," ","m","e">> >>

\* User appears stable.
reason_stable ==
  <<"U","s","e","r"," ","a","p","p","e","a","r","s"," ","s","t","a","b","l","e",".">>

\* Detected crisis keyword: 
reason_detected ==
  <<"D","e","t","e","c","t","e","d"," ","c","r","i","s","i","s"," ","k","e","y","w","o",
    "r","d",":"," ">>

\* I am concerned about what you just said. I am notifying your emergency contact immediately. Please stay on the line.
suggestion_notify ==
  <<"I"," ","a","m"," ","c","o","n","c","e","r","n","e","d"," ","a","b","o","u","t"," ",
    "w","h","a","t"," ","y","o","u"," ","j","u","s","t"," ","s","a","i","d","."," ","I",
    " ","a","m"," ","n","o","t","i","f","y","i","n","g"," ","y","o","u","r"," ","e","m",
    "e","r","g","e","n","c","y"," ","c","o","n","t","a","c","t"," ","i","m","m","e","d",
    "i","a","t","e","l","y","."," ","P","l","e","a","s","e"," ","s","t","a","y"," ","o",
    "n"," ","t","h","e"," ","l","i","n","e",".">>

\* Agent provided no output
reason_no_output ==
  <<"A","g","e","n","t"," ","p","r","o","v","i","d","e","d"," ","n","o"," ","o","u","t",
    "p","u","t">>

\* is_safe
k_is_safe ==
  <<"i","s","_","s","a","f","e">>

\* reason
k_reason ==
  <<"r","e","a","s","o","n">>

\* response_suggestion
k_response_suggestion ==
  <<"r","e","s","p","o","n","s","e","_","s","u","g","g","e","s","t","i","o","n">>
\* riskLevel
k_riskLevel ==
  <<"r","i","s","k","L","e","v","e","l">>

\* action
k_action ==
  <<"a","c","t","i","o","n">>

\* method
k_method ==
  <<"m","e","t","h","o","d">>

\* LOW
v_LOW ==
  <<"L","O","W">>

\* MEDIUM
v_MEDIUM ==
  <<"M","E","D","I","U","M">>

\* HIGH
v_HIGH ==
  <<"H","I","G","H">>

\* continue_calm
v_continue_calm ==
  <<"c","o","n","t","i","n","u","e","_","c","a","l","m">>

\* offer_support
v_offer_support ==
  <<"o","f","f","e","r","_","s","u","p","p","o","r","t">>

\* confirm_emergency
v_confirm_emergency ==
  <<"c","o","n","f","i","r","m","_","e","m","e","r","g","e","n","c","y">>

\* execute_action
v_execute_action ==
  <<"e","x","e","c","u","t","e","_","a","c","t","i","o","n">>

\* stay_present_monitor
v_stay_present_monitor ==
  <<"s","t","a","y","_","p","r","e","s","e","n","t","_","m","o","n","i","t","o","r">>

\* call
v_call ==
  <<"c","a","l","l">>

\* message
v_message ==
  <<"m","e","s","s","a","g","e">>

\* get_emergency_context(user_id): the static record of the user; the clock
\* reading current_time is left out, nothing reads it.
get_emergency_context(user_id) ==
  [ user_name |-> "Grandpa Joe",
    location |-> "Home - 123 Maple St",
    emergency_contacts |->
      << [name |-> "Tommy", phone |-> "555-0199", relation |-> "Grandson",
          preferred_method |-> v_call],
         [name |-> "Dr. Smith", phone |-> "555-0900", relation |-> "Doctor",
          preferred_method |-> v_message] >>,
    medical_notes |-> "History of heart arrhythmia." ]

----------------------------------------------------------------------------
(* JSON values, json.dumps and json.loads                                  *)
(* A value is a string, a boolean, null or an object whose members are     *)
(* scalars; every text of the model lies in this fragment or is rejected   *)
(* by json.loads as well.  Whitespace is the space character.              *)

JStr(s)  == [t |-> "str",  s |-> s,    b |-> FALSE, m |-> <<>>]
JBool(b) == [t |-> "bool", s |-> <<>>, b |-> b,     m |-> <<>>]
JNull    == [t |-> "null", s |-> <<>>, b |-> FALSE, m |-> <<>>]
\* a dict, as the sequence of its (key, value) members in insertion order
JObj(m)  == [t |-> "obj",  s |-> <<>>, b |-> FALSE, m |-> m]
Member(k, v) == [k |-> k, v |-> v]

w_true  == <<"t","r","u","e">>
w_false == <<"f","a","l","s","e">>
w_null  == <<"n","u","l","l">>

IsSpecial(c) == c \in {"\"", "\\"}

\* the JSON escape of a string: every quote and backslash gets a backslash
\* before it (computed by position: a long text is not walked recursively)
EscapeString(s) ==
  LET before(p) == Cardinality({q \in 1..(p - 1) : IsSpecial(s[q])})
      total == Len(s) + before(Len(s) + 1)
  IN IF total = Len(s) THEN s
     ELSE [n \in 1..total |->
             LET p == CHOOSE p \in 1..Len(s) :
                        \/ n = p + before(p)
                        \/ IsSpecial(s[p]) /\ n = p + before(p) + 1
             IN IF IsSpecial(s[p]) /\ n = p + before(p) THEN "\\" ELSE s[p]]

\* json.dumps of a scalar
DumpScalar(v) ==
  IF v.t = "str" THEN <<"\"">> \o EscapeString(v.s) \o <<"\"">>
  ELSE IF v.t = "bool" THEN (IF v.b THEN w_true ELSE w_false)
  ELSE w_null

RECURSIVE DumpMembers(_)
DumpMembers(m) ==
  IF m = <<>> THEN <<>>
  ELSE <<"\"">> \o EscapeString(Head(m).k) \o <<"\"", ":", " ">> \o DumpScalar(Head(m).v)
       \o (IF Tail(m) = <<>> THEN <<>> ELSE <<",", " ">> \o DumpMembers(Tail(m)))

\* json.dumps(value) with the default separators ", " and ": "
JsonDumps(v) ==
  IF v.t = "obj" THEN <<"{">> \o DumpMembers(v.m) \o <<"}">> ELSE DumpScalar(v)

RECURSIVE SkipWs(_, _)
SkipWs(s, i) == IF i <= Len(s) /\ s[i] = " " THEN SkipWs(s, i + 1) ELSE i

\* word stands in s at position i
StartsAt(s, i, word) ==
  /\ i >= 1
  /\ i + Len(word) - 1 <= Len(s)
  /\ \A j \in 1..Len(word) : s[i + j - 1] = word[j]

ParseFail == [ok |-> FALSE, val |-> JNull, next |-> 0]

\* the number of backslashes that stand directly before position j, from
\* position i on
SlashRun(s, i, j) ==
  Cardinality({p \in i..(j - 1) : \A q \in p..(j - 1) : s[q] = "\\"})

\* the string whose body starts at position i (after the opening quote): it
\* ends at the first quote that no backslash escapes; \" \\ \/ are the
\* escapes read, any other escape is rejected
ScanString(s, i) ==
  LET closing == {j \in i..Len(s) : s[j] = "\"" /\ SlashRun(s, i, j) % 2 = 0}
      j == CHOOSE j \in closing : \A k \in closing : j <= k
      \* the backslashes that escape the character after them
      escapes == {p \in i..(j - 1) : s[p] = "\\" /\ SlashRun(s, i, p) % 2 = 0}
      kept == (i..(j - 1)) \ escapes
      nth(n) == CHOOSE p \in kept : Cardinality({q \in kept : q <= p}) = n
  IN IF closing = {} THEN ParseFail
     ELSE IF escapes = {}
          THEN [ok |-> TRUE, val |-> JStr(SubSeq(s, i, j - 1)), next |-> j + 1]
     ELSE IF \E p \in escapes : s[p + 1] \notin {"\"", "\\", "/"} THEN ParseFail
     ELSE [ok |-> TRUE,
           val |-> JStr([n \in 1..Cardinality(kept) |-> s[nth(n)]]),
           next |-> j + 1]

ParseScalar(s, i) ==
  IF i > Len(s) THEN ParseFail
  ELSE IF s[i] = "\"" THEN ScanString(s, i + 1)
  ELSE IF StartsAt(s, i, w_true) THEN [ok |-> TRUE, val |-> JBool(TRUE), next |-> i + Len(w_true)]
  ELSE IF StartsAt(s, i, w_false) THEN [ok |-> TRUE, val |-> JBool(FALSE), next |-> i + Len(w_false)]
  ELSE IF StartsAt(s, i, w_null) THEN [ok |-> TRUE, val |-> JNull, next |-> i + Len(w_null)]
  ELSE ParseFail

\* the members of an object from position i (at the first key) to the
\* closing brace
RECURSIVE ParseMembers(_, _, _)
ParseMembers(s, i, acc) ==
  IF i > Len(s) \/ s[i] # "\"" THEN ParseFail
  ELSE LET key == ScanString(s, i + 1)
           c   == SkipWs(s, key.next)
       IN IF ~key.ok \/ c > Len(s) \/ s[c] # ":" THEN ParseFail
          ELSE LET v == ParseScalar(s, SkipWs(s, c + 1))
                   e == SkipWs(s, v.next)
                   m == Append(acc, Member(key.val.s, v.val))
               IN IF ~v.ok \/ e > Len(s) THEN ParseFail
                  ELSE IF s[e] = "}" THEN [ok |-> TRUE, val |-> JObj(m), next |-> e + 1]
                  ELSE IF s[e] = "," THEN ParseMembers(s, SkipWs(s, e + 1), m)
                  ELSE ParseFail

ParseValue(s, i) ==
  IF i > Len(s) THEN ParseFail
  ELSE IF s[i] = "{"
       THEN LET j == SkipWs(s, i + 1)
            IN IF j <= Len(s) /\ s[j] = "}"
               THEN [ok |-> TRUE, val |-> JObj(<<>>), next |-> j + 1]
               ELSE ParseMembers(s, j, <<>>)
  ELSE ParseScalar(s, i)

\* json.loads(s): err is JSONDecodeError
JsonLoads(s) ==
  LET r == ParseValue(s, SkipWs(s, 1))
  IN IF r.ok /\ SkipWs(s, r.next) > Len(s)
     THEN [err |-> FALSE, val |-> r.val]
     ELSE [err |-> TRUE, val |-> JNull]

\* key in d
HasKey(d, key) == d.t = "obj" /\ \E i \in DOMAIN d.m : d.m[i].k = key

\* d.get(key, default): the last member of that key wins in a dict
DictGet(d, key, default) ==
  IF HasKey(d, key)
  THEN LET I == {i \in DOMAIN d.m : d.m[i].k = key}
       IN d.m[CHOOSE i \in I : \A j \in I : j <= i].v
  ELSE default

----------------------------------------------------------------------------
\* a buggy analyze_safety: is_safe starts out False
analyze_safety_default_unsafe(text) ==
  LET text_lower == Lower(text)
      hits == {i \in DOMAIN crisis_keywords : Contains(text_lower, crisis_keywords[i])}
      first == CHOOSE i \in hits : \A j \in hits : i <= j
  IN IF hits = {}
     THEN JObj(<< Member(k_is_safe, JBool(FALSE)),
                  Member(k_reason, JStr(reason_stable)),
                  Member(k_response_suggestion, JStr(<<>>)) >>)
     ELSE JObj(<< Member(k_is_safe, JBool(FALSE)),
                  Member(k_reason, JStr(reason_detected \o crisis_keywords[first])),
                  Member(k_response_suggestion, JStr(suggestion_notify)) >>)

\* analyze_safety(text): the first crisis keyword, in the order of
\* crisis_keywords, that occurs in the lower-cased text makes it unsafe
analyze_safety(text) ==
  LET text_lower == Lower(text)
      hits == {i \in DOMAIN crisis_keywords : Contains(text_lower, crisis_keywords[i])}
      first == CHOOSE i \in hits : \A j \in hits : i <= j
  IN IF hits = {}
     THEN JObj(<< Member(k_is_safe, JBool(TRUE)),
                  Member(k_reason, JStr(reason_stable)),
                  Member(k_response_suggestion, JStr(<<>>)) >>)
     ELSE JObj(<< Member(k_is_safe, JBool(FALSE)),
                  Member(k_reason, JStr(reason_detected \o crisis_keywords[first])),
                  Member(k_response_suggestion, JStr(suggestion_notify)) >>)

\* the replies the instruction gives as examples of a confirmation
\* ('yes', 'please', 'help') and of a refusal ('I'm fine', 'wait')
affirmative_replies ==
  { <<"y","e","s">>,
    <<"p","l","e","a","s","e">>,
    <<"h","e","l","p">> }

negative_replies ==
  { <<"i","'","m"," ","f","i","n","e">>,
    <<"w","a","i","t">> }
\* I am planning to visit my grandson tomorrow.
U_Visit ==
  <<"I"," ","a","m"," ","p","l","a","n","n","i","n","g"," ","t","o"," ","v","i","s","i",
    "t"," ","m","y"," ","g","r","a","n","d","s","o","n"," ","t","o","m","o","r","r","o",
    "w",".">>

\* I think I fell down and I am in a lot of pain.
U_Fell ==
  <<"I"," ","t","h","i","n","k"," ","I"," ","f","e","l","l"," ","d","o","w","n"," ","a",
    "n","d"," ","I"," ","a","m"," ","i","n"," ","a"," ","l","o","t"," ","o","f"," ","p",
    "a","i","n",".">>

\* yes please help
U_Yes ==
  <<"y","e","s"," ","p","l","e","a","s","e"," ","h","e","l","p">>

\* what time is it
U_Time ==
  <<"w","h","a","t"," ","t","i","m","e"," ","i","s"," ","i","t">>
\* I'm fine
U_Fine ==
  <<"I","'","m"," ","f","i","n","e">>
\* HELP ME
U_HelpMe ==
  <<"H","E","L","P"," ","M","E">>

\* blood and chest pain
U_BloodChest ==
  <<"b","l","o","o","d"," ","a","n","d"," ","c","h","e","s","t"," ","p","a","i","n">>

\* pieces of text the inputs of analyze_safety are put together from
Fragments ==
  { <<" ">>,
    <<"f","e","l","l">>,
    <<"F","A","L","L">>,
    <<"b","l","o","o","d">>,
    <<"c","h","e","s","t">>,
    <<"p","a","i","n">>,
    <<"h","e","l","p">>,
    <<"m","e">>,
    <<"w","a","t","e","r">> }
\* response
k_response ==
  <<"r","e","s","p","o","n","s","e">>

\* {"user_text": "I am feeling a bit lonely today.", "memory_context": "Grandson Tommy visits on Sundays.", "mood": "sad"}
P_Lonely ==
  <<"{","\"","u","s","e","r","_","t","e","x","t","\"",":"," ","\"","I"," ","a","m"," ",
    "f","e","e","l","i","n","g"," ","a"," ","b","i","t"," ","l","o","n","e","l","y"," ",
    "t","o","d","a","y",".","\"",","," ","\"","m","e","m","o","r","y","_","c","o","n","t",
    "e","x","t","\"",":"," ","\"","G","r","a","n","d","s","o","n"," ","T","o","m","m","y",
    " ","v","i","s","i","t","s"," ","o","n"," ","S","u","n","d","a","y","s",".","\"",",",
    " ","\"","m","o","o","d","\"",":"," ","\"","s","a","d","\"","}">>

\* {"user_text": "I feel lonely"      (the object is not closed)
P_Broken ==
  <<"{","\"","u","s","e","r","_","t","e","x","t","\"",":"," ","\"","I"," ","f","e","e","l",
    " ","l","o","n","e","l","y","\"">>

\* [Warm Tone] I hear you saying: 
warm_hear ==
  <<"[","W","a","r","m"," ","T","o","n","e","]"," ","I"," ","h","e","a","r"," ","y","o",
    "u"," ","s","a","y","i","n","g",":"," ">>

\* [Warm Tone] I'm here with you.
warm_here ==
  <<"[","W","a","r","m"," ","T","o","n","e","]"," ","I","'","m"," ","h","e","r","e"," ",
    "w","i","t","h"," ","y","o","u",".">>

\* [Warm Tone] I'm here with you. Tell me more, dear.
warm_tell_me_more ==
  <<"[","W","a","r","m"," ","T","o","n","e","]"," ","I","'","m"," ","h","e","r","e"," ",
    "w","i","t","h"," ","y","o","u","."," ","T","e","l","l"," ","m","e"," ","m","o","r",
    "e",","," ","d","e","a","r",".">>

\*  Tommy will visit on Sunday. 
R_Sunday ==
  <<" ","T","o","m","m","y"," ","w","i","l","l"," ","v","i","s","i","t"," ","o","n"," ",
    "S","u","n","d","a","y","."," ">>

\* Parse error, assuming safe
reason_parse_error ==
  <<"P","a","r","s","e"," ","e","r","r","o","r",","," ","a","s","s","u","m","i","n","g",
    " ","s","a","f","e">>

\* No memory found.
no_memory_found ==
  <<"N","o"," ","m","e","m","o","r","y"," ","f","o","u","n","d",".">>

\* I'm having trouble thinking right now, dear.
trouble_thinking ==
  <<"I","'","m"," ","h","a","v","i","n","g"," ","t","r","o","u","b","l","e"," ","t","h",
    "i","n","k","i","n","g"," ","r","i","g","h","t"," ","n","o","w",","," ","d","e","a",
    "r",".">>

\* Memory saved.
memory_saved ==
  <<"M","e","m","o","r","y"," ","s","a","v","e","d",".">>

\* {}
empty_object ==
  <<"{","}">>

\* Grandson Tommy visits on Sundays.
M_Sundays ==
  <<"G","r","a","n","d","s","o","n"," ","T","o","m","m","y"," ","v","i","s","i","t","s",
    " ","o","n"," ","S","u","n","d","a","y","s",".">>

\* I am here with you.
T_Prose ==
  <<"I"," ","a","m"," ","h","e","r","e"," ","w","i","t","h"," ","y","o","u",".">>
----------------------------------------------------------------------------
(* The executors: one inbound request per element of Reqs                  *)

MaxReqs == 2
Reqs == 1..MaxReqs
Agents == {"safety", "conversation"}
ContextIds == {"ctx1", "ctx2"}

\* the utterances sent to the Safety agent
Utterances == {U_Visit, U_Fell, U_Yes, U_Time, U_Fine}
\* the payloads sent to the Conversation agent: the orchestrator's JSON and raw text
\* the texts of the turns that run at the same time
ConcurrentUtterances == {U_Fell, U_Fine}
Payloads == {P_Lonely, U_Visit, P_Broken}
\* what the POST to the Ollama endpoint comes to: an exception, or a JSON
\* object with or without text in its "response" field
OllamaOutcomes ==
  { [ok |-> FALSE, data |-> JObj(<<>>)], [ok |-> TRUE, data |-> JObj(<<>>)] }
  \cup { [ok |-> TRUE, data |-> JObj(<< Member(k_response, JStr(x)) >>)] : x \in {R_Sunday, <<>>} }

VARIABLES
  req,            \* req[r]: the RequestContext (agent, context_id, message text, current_task)
  pc,             \* pc[r]: where execute stands for request r
  task,           \* task[r]: the local variable task of execute
  response_text,  \* response_text[r]: the local variable response_text
  exc,            \* exc[r]: the exception raised while serving r, "" when none
  queue,          \* queue[r]: the events put on the request's EventQueue, in order
  sessions        \* adk_manager.session_service: context_id -> session

execVars == <<req, pc, task, response_text, exc, queue, sessions>>

VARIABLES
  tool_text,      \* the argument of a call of the analyze_safety tool
  tool_result     \* what the call returned, JNull before it

toolVars == <<tool_text, tool_result>>

VARIABLES
  opc,            \* where the turn of the orchestrator stands
  user_text,      \* the text of the user in this turn
  tool_calls,     \* the tool calls of the turn, in order, each with what it returned
  final_output    \* the final response of the orchestrator agent

orchVars == <<opc, user_text, tool_calls, final_output>>

VARIABLES
  cancel_call     \* the last call of an executor's cancel and what came of it

cancelVars == <<cancel_call>>

VARIABLES
  cpc,            \* where a call of call_a2a_agent stands
  clock,          \* seconds since the HTTP client last received anything
  response_chunk, \* the last chunk received (final_response), None before
  terminal_seen,  \* whether the remote agent has sent a terminal event
  client_result,  \* the dict the call returned
  caller,         \* the tool that runs the call: asyncio.run(call_a2a_agent(...))
  tool_done       \* whether that tool has returned to the orchestrator agent

clientVars == <<cpc, clock, response_chunk, terminal_seen, client_result, caller, tool_done>>

vars == <<execVars, toolVars, orchVars, cancelVars, clientVars>>

\* no call of cancel yet
NoCancel == [req |-> 0, agent |-> "", raised |-> "", events |-> 0]

\* a session of the session service: absent, or the turns run in it so far
NoSession == [exists |-> FALSE, turns |-> <<>>]
NewSession == [exists |-> TRUE, turns |-> <<>>]
NoTask ==
  [kind |-> "task", id |-> 0, context_id |-> "", state |-> "none",
   artifacts |-> <<>>, message |-> <<>>, final |-> FALSE]
NoReq == [agent |-> "", context_id |-> "", text |-> <<>>, current_task |-> FALSE]

\* context.task_id of request r
TaskId(r) == r

\* a2a.utils.new_task(message): a Task in state submitted
new_task(r) ==
  [kind |-> "task", id |-> TaskId(r), context_id |-> req[r].context_id,
   state |-> "submitted", artifacts |-> <<>>, message |-> <<>>, final |-> FALSE]

\* new_artifact([Part(root=TextPart(text=text))], name)
new_artifact(text, name) == [name |-> name, parts |-> <<text>>]

\* a2a.utils.completed_task(task_id, context_id, artifacts, history)
completed_task(task_id, context_id, artifacts) ==
  [kind |-> "task", id |-> task_id, context_id |-> context_id,
   state |-> "completed", artifacts |-> artifacts, message |-> <<>>, final |-> TRUE]

\* a buggy status update: TaskState.working in place of TaskState.failed
failed_status_working(task_id, context_id, message) ==
  [kind |-> "status", id |-> task_id, context_id |-> context_id,
   state |-> "working", artifacts |-> <<>>, message |-> message, final |-> FALSE]

\* TaskUpdater(event_queue, task_id, context_id).update_status(TaskState.failed,
\* message, final=True): the status update event it enqueues
failed_status(task_id, context_id, message) ==
  [kind |-> "status", id |-> task_id, context_id |-> context_id,
   state |-> "failed", artifacts |-> <<>>, message |-> message, final |-> TRUE]

\* the message of the failed status: the Safety executor gives the reason,
\* the Conversation executor passes no message
failure_message(agent, e) ==
  IF agent = "safety" THEN <<"Safety Analysis Failed: ", e>> ELSE <<>>

IsTerminal(ev) == ev.state \in {"completed", "failed", "canceled"}

----------------------------------------------------------------------------
(* The Safety engine: ADKManager                                           *)

\* the JSON text of an assessment
Assessment(level, action) ==
  JsonDumps(JObj(<< Member(k_riskLevel, JStr(level)), Member(k_action, JStr(action)) >>))

AssessmentWithMethod(level, action, method) ==
  JsonDumps(JObj(<< Member(k_riskLevel, JStr(level)), Member(k_action, JStr(action)),
                    Member(k_method, JStr(method)) >>))

\* the answers the instruction of safety_agent lets the model give: the
\* level/action table of STEP 2 and STEP 3, the method being the preferred
\* method of a contact of the emergency context
InstructedAnswers(user_id) ==
  LET contacts == get_emergency_context(user_id).emergency_contacts
  IN { Assessment(v_LOW, v_continue_calm),
       Assessment(v_MEDIUM, v_offer_support),
       Assessment(v_HIGH, v_confirm_emergency),
       Assessment(v_HIGH, v_stay_present_monitor) }
     \cup { AssessmentWithMethod(v_HIGH, v_execute_action, contacts[i].preferred_method) :
              i \in DOMAIN contacts }

\* the final response text of one run of the agent: an instructed answer or
\* the result of the analyze_safety tool relayed as it is; which one is the
\* language model's choice
ModelAnswers(user_id, text) ==
  InstructedAnswers(user_id) \cup {JsonDumps(analyze_safety(text))}

\* the fallback of process_message when no final response carried text
no_output_fallback ==
  JsonDumps(JObj(<< Member(k_is_safe, JBool(TRUE)),
                    Member(k_reason, JStr(reason_no_output)),
                    Member(k_response_suggestion, JStr(<<>>)) >>))

\* response_text after the loop over the steps: the text of the final
\* response, or the fallback when there is none
final_response_text(answer) ==
  IF answer = <<>> THEN no_output_fallback ELSE answer

\* one turn of a session, as the runner records it
Turn(r, text, answer) == [req |-> r, user |-> text, answer |-> answer]

----------------------------------------------------------------------------
(* ConversationExecutor.generate_llm_response                              *)

\* str.strip() of spaces
Strip(s) ==
  LET solid == {i \in DOMAIN s : s[i] # " "}
      lo == CHOOSE i \in solid : \A j \in solid : i <= j
      hi == CHOOSE i \in solid : \A j \in solid : j <= i
  IN IF solid = {} THEN <<>> ELSE SubSeq(s, lo, hi)

\* a buggy generate_llm_response: a payload that does not parse is dropped
\* and the general fallback returned
generate_llm_response_discard(input_json, ollama) ==
  LET data == JsonLoads(input_json)
  IN IF data.err \/ data.val.t # "obj" \/ ~ollama.ok THEN warm_tell_me_more
     ELSE LET text == Strip(DictGet(ollama.data, k_response, JStr(<<>>)).s)
          IN IF text = <<>> THEN warm_here ELSE text

\* generate_llm_response(input_json), ollama being what the POST comes to
generate_llm_response(input_json, ollama) ==
  LET data == JsonLoads(input_json)
  IN IF data.err THEN warm_hear \o input_json
     ELSE IF data.val.t # "obj" \/ ~ollama.ok THEN warm_tell_me_more
     ELSE LET text == Strip(DictGet(ollama.data, k_response, JStr(<<>>)).s)
          IN IF text = <<>> THEN warm_here ELSE text

----------------------------------------------------------------------------
(* execute, step by step; an await is where another request may run        *)

ExecInit ==
  /\ req = [r \in Reqs |-> NoReq]
  /\ pc = [r \in Reqs |-> "idle"]
  /\ task = [r \in Reqs |-> NoTask]
  /\ response_text = [r \in Reqs |-> <<>>]
  /\ exc = [r \in Reqs |-> ""]
  /\ queue = [r \in Reqs |-> <<>>]
  /\ sessions = [c \in ContextIds |-> NoSession]
  /\ cancel_call = NoCancel

\* the request handler hands request r to the executor of its agent: the
\* turns of this specification come one after the other, each when the
\* earlier ones have returned
Receive(r) ==
  /\ pc[r] = "idle"
  /\ \A q \in Reqs : q < r => pc[q] = "returned"
  /\ \E a \in Agents, c \in ContextIds, has_task \in BOOLEAN :
       \E text \in (IF a = "safety" THEN Utterances ELSE Payloads) :
         req' = [req EXCEPT ![r] = [agent |-> a, context_id |-> c, text |-> text,
                                    current_task |-> has_task]]
  /\ pc' = [pc EXCEPT ![r] = "execute"]
  /\ UNCHANGED <<task, response_text, exc, queue, sessions>>
  /\ UNCHANGED <<toolVars, orchVars, cancelVars, clientVars>>

\* the exception e is raised inside the try block of execute
Raise(r, e) ==
  /\ pc' = [pc EXCEPT ![r] = "except"]
  /\ exc' = [exc EXCEPT ![r] = e]

\* a buggy beginning: a new task is created and enqueued whether the request
\* has a task or not
ExecuteBegin_always_new(r) ==
  /\ pc[r] = "execute"
  /\ task' = [task EXCEPT ![r] = new_task(r)]
  /\ queue' = [queue EXCEPT ![r] = Append(@, new_task(r))]
  /\ pc' = [pc EXCEPT ![r] = "input"]
  /\ UNCHANGED <<req, response_text, exc, sessions>>
  /\ UNCHANGED <<toolVars, orchVars, cancelVars, clientVars>>

\* task = context.current_task; if not task: task = new_task(context.message);
\* await event_queue.enqueue_event(task)
ExecuteBegin(r) ==
  /\ pc[r] = "execute"
  /\ \/ /\ req[r].current_task
        /\ task' = [task EXCEPT ![r] = [new_task(r) EXCEPT !.state = "working"]]
        /\ pc' = [pc EXCEPT ![r] = "input"]
        /\ UNCHANGED <<exc, queue>>
     \/ /\ ~req[r].current_task
        /\ task' = [task EXCEPT ![r] = new_task(r)]
        /\ queue' = [queue EXCEPT ![r] = Append(@, new_task(r))]
        /\ pc' = [pc EXCEPT ![r] = "input"]
        /\ UNCHANGED exc
     \/ /\ ~req[r].current_task
        /\ \E e \in {"new_task", "enqueue_event"} : Raise(r, e)
        /\ UNCHANGED <<task, queue>>
  /\ UNCHANGED <<req, response_text, sessions>>
  /\ UNCHANGED <<toolVars, orchVars, cancelVars, clientVars>>

\* the name the executor gives its artifact
artifact_name(agent) == IF agent = "safety" THEN "safety_analysis_result" ELSE "response"

\* a buggy completion: the completed task is enqueued and the call raises
\* all the same, so that the handler runs after it
Complete_and_raise(r, text) ==
  /\ response_text' = [response_text EXCEPT ![r] = text]
  /\ queue' = [queue EXCEPT ![r] =
                 Append(@, completed_task(task[r].id, task[r].context_id,
                             << new_artifact(text, artifact_name(req[r].agent)) >>))]
  /\ Raise(r, "enqueue_event")

\* completed = completed_task(task.id, task.context_id, [new_artifact(...)],
\* [context.message]); await event_queue.enqueue_event(completed): the
\* completed task is enqueued, or building or enqueuing it raises
Complete(r, text) ==
  /\ response_text' = [response_text EXCEPT ![r] = text]
  /\ \/ /\ queue' = [queue EXCEPT ![r] =
                       Append(@, completed_task(task[r].id, task[r].context_id,
                                   << new_artifact(text, artifact_name(req[r].agent)) >>))]
        /\ pc' = [pc EXCEPT ![r] = "done"]
        /\ UNCHANGED exc
     \/ /\ \E e \in {"completed_task", "enqueue_event"} : Raise(r, e)
        /\ UNCHANGED queue

\* SafetyExecutor: user_input = context.get_user_input(), then process_message
\* up to await self.session_service.get_session(...), which raises when the
\* session does not exist
SafetyInput(r) ==
  /\ pc[r] = "input"
  /\ req[r].agent = "safety"
  /\ \/ /\ pc' = [pc EXCEPT ![r] =
                    IF sessions[req[r].context_id].exists THEN "run" ELSE "create_session"]
        /\ UNCHANGED exc
     \/ Raise(r, "get_user_input")
  /\ UNCHANGED <<req, task, response_text, queue, sessions>>
  /\ UNCHANGED <<toolVars, orchVars, cancelVars, clientVars>>

\* what create_session leaves in the store.  For an id that another turn has
\* created since this turn's get_session, the source does not say what the
\* service does: the stored session is replaced by a new one or kept (or the
\* call raises, see CreateSession)
CreatedSessions(c) ==
  IF sessions[c].exists THEN {NewSession, sessions[c]} ELSE {NewSession}

\* what create_session raises: an error of the service, and for an id that
\* exists the refusal to create it again
CreateSessionErrors(c) ==
  IF sessions[c].exists THEN {"create_session", "session_exists"} ELSE {"create_session"}

\* process_message, except branch: await self.session_service.create_session(...);
\* an exception raised here leaves process_message
CreateSession(r) ==
  /\ pc[r] = "create_session"
  /\ \/ /\ \E s \in CreatedSessions(req[r].context_id) :
             sessions' = [sessions EXCEPT ![req[r].context_id] = s]
        /\ pc' = [pc EXCEPT ![r] = "run"]
        /\ UNCHANGED exc
     \/ /\ \E e \in CreateSessionErrors(req[r].context_id) : Raise(r, e)
        /\ UNCHANGED sessions
  /\ UNCHANGED <<req, task, response_text, queue>>
  /\ UNCHANGED <<toolVars, orchVars, cancelVars, clientVars>>

\* a buggy process_message: the exception of the run is logged and the
\* no-output fallback returned
SafetyRun_swallow(r) ==
  /\ pc[r] = "run"
  /\ LET c == req[r].context_id
         text == req[r].text
     IN /\ sessions' = [sessions EXCEPT ![c].turns = Append(@, Turn(r, text, <<>>))]
        /\ exc' = [exc EXCEPT ![r] = "runner.run"]
        /\ response_text' = [response_text EXCEPT ![r] = no_output_fallback]
        /\ queue' = [queue EXCEPT ![r] =
                       Append(@, completed_task(task[r].id, task[r].context_id,
                                   << new_artifact(no_output_fallback, artifact_name(req[r].agent)) >>))]
        /\ pc' = [pc EXCEPT ![r] = "done"]
  /\ UNCHANGED <<req, task>>
  /\ UNCHANGED <<toolVars, orchVars, cancelVars, clientVars>>

\* process_message, the run of the agent over the new message (no await in
\* it: the runner is iterated synchronously), then the completion.  The
\* runner records the turn in the session; the steps end with a final
\* response text, with none, or with an exception (of a tool such as
\* get_emergency_context, or of the runner), which process_message re-raises
SafetyRun(r) ==
  /\ pc[r] = "run"
  /\ LET c == req[r].context_id
         text == req[r].text
     IN \/ \E answer \in ModelAnswers("default_user", text) \cup {<<>>} :
             /\ sessions' = [sessions EXCEPT ![c].turns = Append(@, Turn(r, text, answer))]
             /\ Complete(r, final_response_text(answer))
        \/ /\ sessions' = [sessions EXCEPT ![c].turns = Append(@, Turn(r, text, <<>>))]
           /\ \E e \in {"get_emergency_context", "runner.run"} : Raise(r, e)
           /\ UNCHANGED <<response_text, queue>>
  /\ UNCHANGED <<req, task>>
  /\ UNCHANGED <<toolVars, orchVars, cancelVars, clientVars>>

\* ConversationExecutor: user_input = context.get_user_input();
\* response_text = self.generate_llm_response(user_input); then the completion
ConversationRespond(r) ==
  /\ pc[r] = "input"
  /\ req[r].agent = "conversation"
  /\ \/ \E ollama \in OllamaOutcomes :
          Complete(r, generate_llm_response(req[r].text, ollama))
     \/ /\ Raise(r, "get_user_input")
        /\ UNCHANGED <<response_text, queue>>
  /\ UNCHANGED <<req, task, sessions>>
  /\ UNCHANGED <<toolVars, orchVars, cancelVars, clientVars>>

\* a buggy handler: the exception is logged and nothing is enqueued
HandleException_silent(r) ==
  /\ pc[r] = "except"
  /\ pc' = [pc EXCEPT ![r] = "done"]
  /\ UNCHANGED <<req, task, response_text, exc, queue, sessions>>
  /\ UNCHANGED <<toolVars, orchVars, cancelVars, clientVars>>

\* except Exception as e: updater = TaskUpdater(event_queue, context.task_id,
\* context.context_id); await updater.update_status(TaskState.failed, ..., final=True)
HandleException(r) ==
  /\ pc[r] = "except"
  /\ queue' = [queue EXCEPT ![r] =
                 Append(@, failed_status(TaskId(r), req[r].context_id,
                                         failure_message(req[r].agent, exc[r])))]
  /\ pc' = [pc EXCEPT ![r] = "done"]
  /\ UNCHANGED <<req, task, response_text, exc, sessions>>
  /\ UNCHANGED <<toolVars, orchVars, cancelVars, clientVars>>

\* execute returns: the request handler has consumed the events of the
\* request and closes its queue; the RequestContext and the locals of
\* execute are gone
Return(r) ==
  /\ pc[r] = "done"
  /\ pc' = [pc EXCEPT ![r] = "returned"]
  /\ req' = [req EXCEPT ![r] = NoReq]
  /\ task' = [task EXCEPT ![r] = NoTask]
  /\ response_text' = [response_text EXCEPT ![r] = <<>>]
  /\ exc' = [exc EXCEPT ![r] = ""]
  /\ queue' = [queue EXCEPT ![r] = <<>>]
  /\ UNCHANGED sessions
  /\ UNCHANGED <<toolVars, orchVars, cancelVars, clientVars>>

\* a buggy cancel: a canceled status is put on the queue and the call returns
cancel_quietly(r) ==
  /\ pc[r] \notin {"idle", "returned"}
  /\ queue' = [queue EXCEPT ![r] =
                 Append(@, [failed_status(TaskId(r), req[r].context_id, <<>>)
                              EXCEPT !.state = "canceled"])]
  /\ cancel_call' = [req |-> r, agent |-> req[r].agent, raised |-> "",
                     events |-> Len(queue'[r]) - Len(queue[r])]
  /\ UNCHANGED <<req, pc, task, response_text, exc, sessions>>
  /\ UNCHANGED <<toolVars, orchVars, clientVars>>

\* cancel(context, event_queue) of either executor, called for the task of
\* request r whatever its state: raise ServerError(error=UnsupportedOperationError())
cancel(r) ==
  /\ pc[r] \notin {"idle", "returned"}
  /\ cancel_call' = [req |-> r, agent |-> req[r].agent,
                     raised |-> "UnsupportedOperationError", events |-> 0]
  /\ UNCHANGED execVars
  /\ UNCHANGED <<toolVars, orchVars, clientVars>>

\* the request handler hands request r to the Safety executor while other
\* requests are in progress: each request runs as a task of the one event
\* loop, and the tasks take turns at their awaits
ReceiveConcurrent(r) ==
  /\ pc[r] = "idle"
  /\ \E c \in ContextIds, text \in ConcurrentUtterances :
       req' = [req EXCEPT ![r] = [agent |-> "safety", context_id |-> c, text |-> text,
                                  current_task |-> FALSE]]
  /\ pc' = [pc EXCEPT ![r] = "execute"]
  /\ UNCHANGED <<task, response_text, exc, queue, sessions>>
  /\ UNCHANGED <<toolVars, orchVars, cancelVars, clientVars>>

\* a turn of the one conversation the orchestrator handles reaches the Safety
\* executor: check_safety(user_text) calls call_a2a_agent, which builds the
\* message with create_text_message_object(content=message_text), from the
\* text alone, on a new client.  The message names no context and no task,
\* so the context_id of the request is not tied to that of an earlier turn
ReceiveFromOrchestrator(r) ==
  /\ pc[r] = "idle"
  /\ \A q \in Reqs : q < r => pc[q] = "returned"
  /\ \E c \in ContextIds, text \in Utterances :
       req' = [req EXCEPT ![r] = [agent |-> "safety", context_id |-> c, text |-> text,
                                  current_task |-> FALSE]]
  /\ pc' = [pc EXCEPT ![r] = "execute"]
  /\ UNCHANGED <<task, response_text, exc, queue, sessions>>
  /\ UNCHANGED <<toolVars, orchVars, cancelVars, clientVars>>

Next ==
  \E r \in Reqs :
    \/ Receive(r)
    \/ ExecuteBegin(r)
    \/ SafetyInput(r)
    \/ CreateSession(r)
    \/ SafetyRun(r)
    \/ ConversationRespond(r)
    \/ HandleException(r)
    \/ Return(r)



----------------------------------------------------------------------------
(* analyze_safety over a bounded set of texts                              *)

MaxWords == 3

\* the texts put together from n fragments
RECURSIVE Joined(_)
Joined(n) ==
  IF n = 0 THEN {<<>>} ELSE {t \o f : t \in Joined(n - 1), f \in Fragments}

ToolInputs ==
  UNION {Joined(n) : n \in 0..MaxWords} \cup Utterances \cup {U_HelpMe, U_BloodChest}

ToolInit ==
  /\ tool_text = <<>>
  /\ tool_result = JNull

\* the agent calls the tool analyze_safety on the text
CallAnalyzeSafety ==
  /\ tool_result = JNull
  /\ tool_result' = analyze_safety(tool_text)
  /\ UNCHANGED <<tool_text, execVars, orchVars, cancelVars, clientVars>>


----------------------------------------------------------------------------
(* orchestrator/agent.py: call_a2a_agent and the four tools                *)

MaxCalls == 3

\* a part of a message that carries text (a part without text has is_text FALSE)
TextPart(text) == [is_text |-> TRUE, text |-> text]

\* a chunk yielded by client.send_message: a Message, which has parts, or a
\* task event, which has none and carries the state and artifacts of the task
MessageChunk(parts) ==
  [has_parts |-> TRUE, parts |-> parts, state |-> "", artifacts |-> <<>>]
TaskChunk(state, artifacts) ==
  [has_parts |-> FALSE, parts |-> <<>>, state |-> state, artifacts |-> artifacts]

\* what a call of a remote agent comes to: an exception (card discovery,
\* connection, the 30 s timeout of the HTTP client), or the chunks received
RemoteError(e) == [raises |-> TRUE, error |-> e, chunks |-> <<>>]
RemoteChunks(chunks) == [raises |-> FALSE, error |-> "", chunks |-> chunks]

\* the dict call_a2a_agent returns, with the keys it holds
ErrorResult(e) ==
  [keys |-> {"status", "error"}, status |-> "error", error |-> e, response_text |-> <<>>]
SuccessResult(text) ==
  [keys |-> {"status", "response_text"}, status |-> "success", error |-> "",
   response_text |-> text]

\* the text of the parts, in order: response_text += part.root.text
RECURSIVE PartsText(_)
PartsText(parts) ==
  IF parts = <<>> THEN <<>>
  ELSE (IF Head(parts).is_text THEN Head(parts).text ELSE <<>>) \o PartsText(Tail(parts))

\* call_a2a_agent(agent_url, message_text), remote being what the call comes to
call_a2a_agent(remote) ==
  IF remote.raises THEN ErrorResult(remote.error)
  ELSE IF remote.chunks = <<>> THEN ErrorResult("No response")
  ELSE LET final_response == remote.chunks[Len(remote.chunks)]
       IN SuccessResult(IF final_response.has_parts
                        THEN PartsText(final_response.parts) ELSE <<>>)

\* result.get("response_text", default)
ResponseText(result, default) ==
  IF "response_text" \in result.keys THEN result.response_text ELSE default

\* check_safety(user_text): the parsed response of the Safety agent, or the
\* "assuming safe" dict when it does not parse
check_safety(remote) ==
  LET result == call_a2a_agent(remote)
      safety_data == JsonLoads(ResponseText(result, empty_object))
  IN IF safety_data.err
     THEN JObj(<< Member(k_is_safe, JBool(TRUE)),
                  Member(k_reason, JStr(reason_parse_error)) >>)
     ELSE safety_data.val

\* consult_memory(user_id, context_query)
consult_memory(remote) == JStr(ResponseText(call_a2a_agent(remote), no_memory_found))

\* generate_companion_response(user_text, memory_context, mood)
generate_companion_response(remote) ==
  JStr(ResponseText(call_a2a_agent(remote), trouble_thinking))

\* save_new_memory(user_id, text_to_save)
save_new_memory(remote) == JStr(memory_saved)

\* the artifact an executor attaches to its completed task
TextArtifact(text) == [name |-> "result", parts |-> <<text>>]

\* what a call of the Safety agent can come to
SafetyRemotes ==
  { RemoteError("discovery"), RemoteError("timeout"),
    RemoteChunks(<<>>),
    RemoteChunks(<< TaskChunk("submitted", <<>>), TaskChunk("failed", <<>>) >>),
    RemoteChunks(<< MessageChunk(<< TextPart(T_Prose) >>) >>),
    RemoteChunks(<< MessageChunk(<< TextPart(<<>>) >>) >>) }
  \cup { RemoteChunks(<< TaskChunk("submitted", <<>>),
                         TaskChunk("completed", << TextArtifact(a) >>) >>) :
           a \in {AssessmentWithMethod(v_HIGH, v_execute_action, v_call)} }
  \cup { RemoteChunks(<< MessageChunk(<< TextPart(a) >>) >>) :
           a \in { AssessmentWithMethod(v_HIGH, v_execute_action, v_call),
                   Assessment(v_LOW, v_continue_calm) } }

\* what a call of the Memory or of the Conversation agent can come to
TextRemotes(text) ==
  { RemoteError("timeout"),
    RemoteChunks(<< TaskChunk("submitted", <<>>), TaskChunk("failed", <<>>) >>),
    RemoteChunks(<< MessageChunk(<< TextPart(text) >>) >>) }

Tools == {"check_safety", "consult_memory", "generate_companion_response", "save_new_memory"}

\* what a tool call can come to, and what the tool then returns
RemotesOf(tool) ==
  IF tool = "check_safety" THEN SafetyRemotes
  ELSE IF tool = "generate_companion_response" THEN TextRemotes(R_Sunday)
  ELSE TextRemotes(M_Sundays)

ToolReturn(tool, remote) ==
  IF tool = "check_safety" THEN check_safety(remote)
  ELSE IF tool = "consult_memory" THEN consult_memory(remote)
  ELSE IF tool = "generate_companion_response" THEN generate_companion_response(remote)
  ELSE save_new_memory(remote)

OrchInit ==
  /\ opc = "idle"
  /\ user_text = <<>>
  /\ tool_calls = <<>>
  /\ final_output = <<>>

\* a turn begins: the orchestrator agent receives the text of the user
StartTurn ==
  /\ opc = "idle"
  /\ \E text \in {U_Visit, U_Fell} : user_text' = text
  /\ opc' = "turn"
  /\ UNCHANGED <<tool_calls, final_output, execVars, toolVars, cancelVars, clientVars>>

\* the model of orchestrator_agent calls one of its tools; the call runs to
\* its end (asyncio.run) and returns before the model goes on.  Which tool
\* it calls, and when, is the model's choice: tools=[...] sets no order
CallTool(tool) ==
  /\ opc = "turn"
  /\ Len(tool_calls) < MaxCalls
  /\ \E remote \in RemotesOf(tool) :
       tool_calls' = Append(tool_calls, [tool |-> tool, remote |-> remote,
                                         result |-> ToolReturn(tool, remote)])
  /\ UNCHANGED <<opc, user_text, final_output, execVars, toolVars, cancelVars, clientVars>>

\* the final response of the model: by the instruction the JSON object a
\* tool returned, or else the text a tool returned
FinalResponse ==
  /\ opc = "turn"
  /\ tool_calls # <<>>
  /\ \E i \in DOMAIN tool_calls :
       final_output' = IF tool_calls[i].result.t = "obj"
                       THEN JsonDumps(tool_calls[i].result)
                       ELSE tool_calls[i].result.s
  /\ opc' = "final"
  /\ UNCHANGED <<user_text, tool_calls, execVars, toolVars, cancelVars, clientVars>>

----------------------------------------------------------------------------
(* call_a2a_agent in time: the HTTP client's timeout and the chunks        *)

\* httpx.AsyncClient(timeout=30.0): the seconds the client waits for the
\* remote end before an operation (connect, read) raises
timeout == 30

\* final_response = None: no chunk yet
None == MessageChunk(<<>>)

\* the chunks a remote agent sends: tasks in a state that is not terminal,
\* terminal tasks, a message
NonTerminalChunks == {TaskChunk("submitted", <<>>), TaskChunk("working", <<>>)}
TerminalChunks ==
  { TaskChunk("completed", << TextArtifact(R_Sunday) >>), TaskChunk("failed", <<>>),
    MessageChunk(<< TextPart(R_Sunday) >>) }

ClientInit ==
  /\ cpc = "idle"
  /\ clock = 0
  /\ response_chunk = None
  /\ terminal_seen = FALSE
  /\ client_result = ErrorResult("")
  /\ caller = ""
  /\ tool_done = FALSE

\* a tool of the orchestrator is called and runs asyncio.run(call_a2a_agent(...));
\* the call begins: async with httpx.AsyncClient(timeout=30.0), then
\* await card_resolver.get_agent_card()
ClientStart ==
  /\ cpc = "idle"
  /\ cpc' = "get_agent_card"
  /\ caller' \in Tools
  /\ UNCHANGED <<clock, response_chunk, terminal_seen, client_result, tool_done>>
  /\ UNCHANGED <<execVars, toolVars, orchVars, cancelVars>>

\* a second passes while the client waits for the remote end
Tick ==
  /\ cpc \in {"get_agent_card", "send_message"}
  /\ clock < timeout
  /\ clock' = clock + 1
  /\ UNCHANGED <<cpc, response_chunk, terminal_seen, client_result, caller, tool_done>>
  /\ UNCHANGED <<execVars, toolVars, orchVars, cancelVars>>

\* the call returns result
ClientReturn(result) ==
  /\ cpc' = "returned"
  /\ client_result' = result

\* the card arrives, and the message is sent: final_response = None;
\* async for response_chunk in client.send_message(message).  Or the
\* discovery raises, which the except branch turns into an error result
GetAgentCard ==
  /\ cpc = "get_agent_card"
  /\ clock < timeout
  /\ \/ /\ cpc' = "send_message"
        /\ clock' = 0
        /\ UNCHANGED client_result
     \/ /\ ClientReturn(call_a2a_agent(RemoteError("discovery")))
        /\ UNCHANGED clock
  /\ UNCHANGED <<response_chunk, terminal_seen, caller, tool_done>>
  /\ UNCHANGED <<execVars, toolVars, orchVars, cancelVars>>

\* nothing has come from the remote end for the time of the timeout: the
\* HTTP client raises, except Exception as e returns the error result
ReadTimeout ==
  /\ cpc \in {"get_agent_card", "send_message"}
  /\ clock = timeout
  /\ ClientReturn(call_a2a_agent(RemoteError("timeout")))
  /\ UNCHANGED <<clock, response_chunk, terminal_seen, caller, tool_done>>
  /\ UNCHANGED <<execVars, toolVars, orchVars, cancelVars>>

\* a chunk arrives before the timeout: final_response = response_chunk
ReceiveChunk(chunk) ==
  /\ cpc = "send_message"
  /\ clock < timeout
  /\ ~terminal_seen
  /\ response_chunk' = chunk
  /\ terminal_seen' = (chunk \in TerminalChunks)
  /\ clock' = 0
  /\ UNCHANGED <<cpc, client_result, caller, tool_done>>
  /\ UNCHANGED <<execVars, toolVars, orchVars, cancelVars>>

\* the remote end closes the stream and the loop ends: "No response" when
\* final_response is None, else the text of the parts of final_response
StreamEnd ==
  /\ cpc = "send_message"
  /\ clock < timeout
  /\ ClientReturn(call_a2a_agent(RemoteChunks(IF response_chunk = None THEN <<>>
                                              ELSE <<response_chunk>>)))
  /\ UNCHANGED <<clock, response_chunk, terminal_seen, caller, tool_done>>
  /\ UNCHANGED <<execVars, toolVars, orchVars, cancelVars>>

\* asyncio.run returns when call_a2a_agent has returned, and the tool
\* returns its value to the orchestrator agent (save_new_memory: "Memory saved.")
ToolReturns ==
  /\ cpc = "returned"
  /\ ~tool_done
  /\ tool_done' = TRUE
  /\ UNCHANGED <<cpc, clock, response_chunk, terminal_seen, client_result, caller>>
  /\ UNCHANGED <<execVars, toolVars, orchVars, cancelVars>>

NextClient ==
  \/ ClientStart
  \/ Tick
  \/ GetAgentCard
  \/ ReadTimeout
  \/ (\E chunk \in NonTerminalChunks \cup TerminalChunks : ReceiveChunk(chunk))
  \/ StreamEnd
  \/ ToolReturns

----------------------------------------------------------------------------
(* The specifications                                                      *)

Init == ExecInit /\ ToolInit /\ OrchInit /\ ClientInit

\* the executors and the Safety engine, turn after turn
Spec == Init /\ [][Next]_vars

\* analyze_safety applied to each text of ToolInputs
InitTool ==
  /\ ExecInit
  /\ OrchInit
  /\ ClientInit
  /\ tool_text \in ToolInputs
  /\ tool_result = JNull

NextTool == CallAnalyzeSafety

SpecTool == InitTool /\ [][NextTool]_vars

\* one turn of the orchestrator
\* the Safety agent with its requests in progress at the same time
NextConcurrent ==
  \E r \in Reqs :
    \/ ReceiveConcurrent(r)
    \/ ExecuteBegin(r)
    \/ SafetyInput(r)
    \/ CreateSession(r)
    \/ SafetyRun(r)
    \/ HandleException(r)
    \/ Return(r)

SpecConcurrent == Init /\ [][NextConcurrent]_vars

\* the turns of one conversation, sent by the orchestrator to the Safety agent
NextConversation ==
  \E r \in Reqs :
    \/ ReceiveFromOrchestrator(r)
    \/ ExecuteBegin(r)
    \/ SafetyInput(r)
    \/ CreateSession(r)
    \/ SafetyRun(r)
    \/ HandleException(r)
    \/ Return(r)

SpecConversation == Init /\ [][NextConversation]_vars

\* the executors with calls of cancel at any point of a request
NextCancel == Next \/ \E r \in Reqs : cancel(r)

SpecCancel == Init /\ [][NextCancel]_vars

NextOrch ==
  \/ StartTurn
  \/ \E tool \in Tools : CallTool(tool)
  \/ FinalResponse

SpecOrch == Init /\ [][NextOrch]_vars

\* time passes and an expired timeout is raised; what the remote end does,
\* and when, is under no condition
SpecClient ==
  /\ Init /\ [][NextClient]_vars
  /\ WF_vars(ClientStart) /\ WF_vars(Tick) /\ WF_vars(ReadTimeout) /\ WF_vars(ToolReturns)

----------------------------------------------------------------------------
(* Properties of the executors                                             *)

\* the terminal events on the queue of request r
TerminalEvents(r) == {i \in DOMAIN queue[r] : IsTerminal(queue[r][i])}

\* the artifact texts of an event, parsed as JSON, that say is_safe = true
ClaimsSafe(ev) ==
  \E a \in DOMAIN ev.artifacts : \E p \in DOMAIN ev.artifacts[a].parts :
     LET d == JsonLoads(ev.artifacts[a].parts[p])
     IN ~d.err /\ DictGet(d.val, k_is_safe, JNull) = JBool(TRUE)

\* C1: every invocation of execute puts exactly one terminal event
\* (completed or failed) of its task on the event queue: never two at any
\* moment, and one when execute is over.
C1_ExactlyOneTerminalEvent ==
  \A r \in Reqs :
    /\ Cardinality(TerminalEvents(r)) <= 1
    /\ \A i \in TerminalEvents(r) :
         /\ queue[r][i].id = TaskId(r)
         /\ queue[r][i].state \in {"completed", "failed"}
    /\ pc[r] = "done" => Cardinality(TerminalEvents(r)) = 1

\* both outcomes occur: a request over with a completed task, and one that
\* failed after its response text was computed
C1_Witness ==
  \E r \in Reqs :
    /\ pc[r] = "done"
    /\ exc[r] = "enqueue_event"
    /\ response_text[r] # <<>>
    /\ Cardinality(TerminalEvents(r)) = 1

\* C2: when a step inside execute raises (task creation, reading the input,
\* the engine or LLM call, building or enqueuing the completed task), a
\* terminal failed event is on the queue when execute is over, and it is the
\* last event.
C2_FailedEventOnException ==
  \A r \in Reqs :
    (pc[r] = "done" /\ exc[r] # "") =>
       /\ queue[r] # <<>>
       /\ queue[r][Len(queue[r])].state = "failed"
       /\ queue[r][Len(queue[r])].final
       /\ queue[r][Len(queue[r])].id = TaskId(r)

C2_Witness ==
  \E r \in Reqs :
    /\ pc[r] = "done"
    /\ exc[r] = "new_task"
    /\ Len(queue[r]) = 1
    /\ queue[r][1].state = "failed"

\* C3: when the emergency-context fetch or another step of the engine
\* raises, the Safety executor emits a failed task and no completed task
\* whose artifact says is_safe = true.
C3_EngineErrorNeverSafe ==
  \A r \in Reqs :
    (pc[r] = "done" /\ exc[r] \in {"get_emergency_context", "runner.run", "create_session"}) =>
       /\ \E i \in DOMAIN queue[r] : queue[r][i].state = "failed"
       /\ \A i \in DOMAIN queue[r] :
            ~(queue[r][i].state = "completed" /\ ClaimsSafe(queue[r][i]))

C3_Witness ==
  \E r \in Reqs :
    /\ pc[r] = "done"
    /\ req[r].agent = "safety"
    /\ exc[r] = "get_emergency_context"
    /\ queue[r][Len(queue[r])].state = "failed"


C14_CancelUnsupported ==
  [][cancel_call' # cancel_call =>
       /\ cancel_call'.raised = "UnsupportedOperationError"
       /\ cancel_call'.events = 0
       /\ queue' = queue
       /\ task' = task]_vars

\* cancel has been called on a task of the Conversation executor that is
\* already completed, and has raised
C14_Witness ==
  /\ cancel_call.raised = "UnsupportedOperationError"
  /\ cancel_call.agent = "conversation"
  /\ pc[cancel_call.req] = "done"
  /\ \E i \in TerminalEvents(cancel_call.req) : queue[cancel_call.req][i].state = "completed"

\* the payload of request r to the Conversation agent is not valid JSON
MalformedPayload(r) ==
  /\ req[r].agent = "conversation"
  /\ JsonLoads(req[r].text).err

SubmittedEvents(r) == {i \in DOMAIN queue[r] : queue[r][i].state = "submitted"}

\* the terminal events of request r carry the id and the contextId of its task
TerminalCarriesTask(r) ==
  \A j \in TerminalEvents(r) :
    /\ queue[r][j].id = TaskId(r)
    /\ queue[r][j].context_id = req[r].context_id

\* C22, the claim as stated: a submitted task event is emitted if and only
\* if the request has no existing task, and it precedes the terminal
\* event; with an existing task the terminal event carries its id and
\* contextId.
C22_SubmittedIffNoTask ==
  \A r \in Reqs :
    pc[r] = "done" =>
      /\ SubmittedEvents(r) # {} <=> ~req[r].current_task
      /\ \A i \in SubmittedEvents(r), j \in TerminalEvents(r) : i < j
      /\ TerminalCarriesTask(r)

\* C22, amended: a submitted task event is emitted if and only if the
\* request has no existing task and the creation and the enqueuing of the
\* new task did not raise; it is then the first event, the only submitted
\* one, and precedes the terminal event.  With an existing task no
\* submitted event is emitted.  The terminal event carries the id and the
\* contextId of the task of the request in every case.
C22_SubmittedWhenTaskCreated ==
  \A r \in Reqs :
    pc[r] = "done" =>
      /\ SubmittedEvents(r) # {} <=> (~req[r].current_task /\ task[r] # NoTask)
      /\ SubmittedEvents(r) \subseteq {1}
      /\ \A i \in SubmittedEvents(r), j \in TerminalEvents(r) : i < j
      /\ req[r].current_task => SubmittedEvents(r) = {}
      /\ TerminalCarriesTask(r)

\* a request that came with its task has ended completed, the completed
\* task being the only event
C22_Witness ==
  \E r \in Reqs :
    /\ pc[r] = "done"
    /\ req[r].current_task
    /\ Len(queue[r]) = 1
    /\ queue[r][1].state = "completed"
    /\ queue[r][1].id = TaskId(r)

\* C23: every failed terminal event carries a status message that gives the
\* reason, and no artifacts; artifacts are on completed events only.
C23_FailedCarriesReason ==
  \A r \in Reqs :
    \A i \in DOMAIN queue[r] :
      /\ queue[r][i].state = "failed" =>
           /\ queue[r][i].message # <<>>
           /\ queue[r][i].artifacts = <<>>
      /\ queue[r][i].artifacts # <<>> => queue[r][i].state = "completed"

----------------------------------------------------------------------------
(* Properties of the orchestrator's tools                                  *)

\* the Safety call produced no usable verdict: an exception (timeout,
\* discovery error), no response, a failed task, or a result text that is
\* empty or does not parse
NoUsableVerdict(remote) ==
  \/ remote.raises
  \/ remote.chunks = <<>>
  \/ remote.chunks[Len(remote.chunks)].state = "failed"
  \/ JsonLoads(call_a2a_agent(remote).response_text).err

\* the verdict says the user is safe
SaysSafe(verdict) ==
  \/ DictGet(verdict, k_is_safe, JNull) = JBool(TRUE)
  \/ DictGet(verdict, k_riskLevel, JNull) = JStr(v_LOW)

\* C4: when the Safety call gives no usable verdict (timeout, discovery
\* error, failed task, empty or unparseable result text), check_safety
\* never returns a verdict that says the user is safe.
C4_NoFalseSafeVerdict ==
  \A i \in DOMAIN tool_calls :
    (tool_calls[i].tool = "check_safety" /\ NoUsableVerdict(tool_calls[i].remote))
      => ~SaysSafe(tool_calls[i].result)

\* C5: in every turn, check_safety has been called and has returned before
\* any call of consult_memory, generate_companion_response or
\* save_new_memory starts.
C5_SafetyFirst ==
  \A i \in DOMAIN tool_calls :
    tool_calls[i].tool # "check_safety"
      => \E j \in 1..(i - 1) : tool_calls[j].tool = "check_safety"

\* the verdict is HIGH with action execute_action
HighExecute(verdict) ==
  /\ DictGet(verdict, k_riskLevel, JNull) = JStr(v_HIGH)
  /\ DictGet(verdict, k_action, JNull) = JStr(v_execute_action)

\* C6: in a turn whose Safety verdict is HIGH with action execute_action the
\* orchestrator calls neither the Memory nor the Conversation agent, and
\* the final output of the turn is the serialized assessment.
C6_HighSkipsMemoryAndConversation ==
  \A i \in DOMAIN tool_calls :
    (tool_calls[i].tool = "check_safety" /\ HighExecute(tool_calls[i].result))
      => /\ \A j \in DOMAIN tool_calls : tool_calls[j].tool = "check_safety"
         /\ opc = "final" => final_output = JsonDumps(tool_calls[i].result)

\* the text of every item of the artifacts, in artifact order
RECURSIVE ArtifactsText(_)
ArtifactsText(artifacts) ==
  IF artifacts = <<>> THEN <<>>
  ELSE LET parts == Head(artifacts).parts
       IN (IF parts = <<>> THEN <<>> ELSE parts[1]) \o ArtifactsText(Tail(artifacts))

\* the remote task ended completed: the last chunk received is the task in
\* that state
EndedCompleted(remote) ==
  /\ ~remote.raises
  /\ remote.chunks # <<>>
  /\ remote.chunks[Len(remote.chunks)].state = "completed"

\* C15: when the remote task ends completed, call_a2a_agent returns as
\* response_text the texts of the artifact items of the task, concatenated
\* in artifact order.
C15_ConcatenatesArtifacts ==
  \A i \in DOMAIN tool_calls :
    EndedCompleted(tool_calls[i].remote)
      => LET result == call_a2a_agent(tool_calls[i].remote)
             completed == tool_calls[i].remote.chunks[Len(tool_calls[i].remote.chunks)]
         IN /\ result.status = "success"
            /\ result.response_text = ArtifactsText(completed.artifacts)

\* C16: if the remote server emits no terminal event within the timeout,
\* call_a2a_agent eventually returns, and what it returns is an error
\* result, not a success.
C16_TimeoutReturnsError ==
  /\ <>(cpc = "returned")
  /\ []((cpc = "returned" /\ ~terminal_seen) => client_result.status = "error")

\* the call of the remote agent failed: an exception (discovery error,
\* timeout), no response, a task that ended failed, or no result text
CallFailed(remote) ==
  \/ remote.raises
  \/ remote.chunks = <<>>
  \/ remote.chunks[Len(remote.chunks)].state = "failed"
  \/ call_a2a_agent(remote).response_text = <<>>

\* C17: if the Conversation call fails in any way (discovery error, timeout,
\* failed task, no usable result text), generate_companion_response
\* returns the apologetic fallback string.
C17_ConversationFallback ==
  \A i \in DOMAIN tool_calls :
    (tool_calls[i].tool = "generate_companion_response" /\ CallFailed(tool_calls[i].remote))
      => tool_calls[i].result = JStr(trouble_thinking)

\* the failures of the Memory retrieval: an exception (discovery error,
\* timeout), no response, or a task that ended failed
RetrievalFailed(remote) ==
  \/ remote.raises
  \/ remote.chunks = <<>>
  \/ remote.chunks[Len(remote.chunks)].state = "failed"

\* C18: if the Memory retrieval fails (discovery error, timeout, failed
\* task), consult_memory returns the "no memory found" value, and the turn
\* goes on to the Conversation step before it ends.
C18_MemoryFailureSwallowed ==
  \A i \in DOMAIN tool_calls :
    (tool_calls[i].tool = "consult_memory" /\ RetrievalFailed(tool_calls[i].remote))
      => /\ tool_calls[i].result = JStr(no_memory_found)
         /\ opc = "final" =>
              \E j \in DOMAIN tool_calls :
                j > i /\ tool_calls[j].tool = "generate_companion_response"

\* save_new_memory has been called and has not returned
Saving == caller = "save_new_memory" /\ ~tool_done

\* C19: memory writes are fire-and-forget: save_new_memory returns without
\* waiting for the task of the Memory agent, so no time passes between its
\* call and its return, and it returns even when the write hangs.
C19_SaveMemoryFireAndForget ==
  /\ [](Saving => clock = 0)
  /\ (Saving ~> tool_done)

----------------------------------------------------------------------------
(* Properties of the Safety engine                                         *)

\* the text contains a crisis keyword
ContainsCrisisKeyword(text) ==
  \E i \in DOMAIN crisis_keywords : Contains(Lower(text), crisis_keywords[i])

IsAffirmative(text) == \E w \in affirmative_replies : Contains(Lower(text), w)
IsNegative(text) == \E w \in negative_replies : Contains(Lower(text), w)

\* the value of a key in the JSON text of an assessment, JNull when absent
Field(text, key) ==
  LET d == JsonLoads(text) IN IF d.err THEN JNull ELSE DictGet(d.val, key, JNull)

\* the Engine has returned an assessment for request r
Returned(r) ==
  /\ pc[r] \in {"done", "except"}
  /\ req[r].agent = "safety"
  /\ response_text[r] # <<>>

\* the turn of the session before the turn of request r ended with the
\* Engine returning confirm_emergency
PendingConfirmation(r) ==
  LET turns == sessions[req[r].context_id].turns
  IN \E i \in DOMAIN turns :
       /\ turns[i].req = r
       /\ i > 1
       /\ Field(final_response_text(turns[i - 1].answer), k_action) = JStr(v_confirm_emergency)

\* C7: for every utterance that contains a crisis keyword, in a session with
\* no pending confirmation, the Engine returns riskLevel HIGH and action
\* confirm_emergency.
C7_CrisisKeywordConfirms ==
  \A r \in Reqs :
    (Returned(r) /\ ContainsCrisisKeyword(req[r].text) /\ ~PendingConfirmation(r))
      => /\ Field(response_text[r], k_riskLevel) = JStr(v_HIGH)
         /\ Field(response_text[r], k_action) = JStr(v_confirm_emergency)

\* C9: if the previous turn of the session returned confirm_emergency and
\* this turn is an affirmative reply, the Engine returns execute_action with
\* the preferred method of the first emergency contact.
C9_AffirmativeExecutes ==
  \A r \in Reqs :
    (Returned(r) /\ PendingConfirmation(r) /\ IsAffirmative(req[r].text))
      => /\ Field(response_text[r], k_action) = JStr(v_execute_action)
         /\ Field(response_text[r], k_method) =
              JStr(get_emergency_context("default_user").emergency_contacts[1].preferred_method)

\* C10: if the previous turn of the session returned confirm_emergency and
\* this turn matches neither reply lexicon, the Engine returns
\* confirm_emergency again, never continue_calm.
C10_NeitherReasserts ==
  \A r \in Reqs :
    (Returned(r) /\ PendingConfirmation(r)
       /\ ~IsAffirmative(req[r].text) /\ ~IsNegative(req[r].text))
      => Field(response_text[r], k_action) = JStr(v_confirm_emergency)

\* C11: if the previous turn of the session returned confirm_emergency and
\* this turn is a negative reply, the Engine returns action
\* stay_present_monitor.
C11_NegativeStaysPresent ==
  \A r \in Reqs :
    (Returned(r) /\ PendingConfirmation(r) /\ IsNegative(req[r].text))
      => Field(response_text[r], k_action) = JStr(v_stay_present_monitor)

\* the assessment returned for request r is in the history of its session
Recorded(r) ==
  LET turns == sessions[req[r].context_id].turns
  IN \E i \in DOMAIN turns :
       /\ turns[i].req = r
       /\ final_response_text(turns[i].answer) = response_text[r]

\* request r failed because the session it went to create had been created
\* by another turn in between
FailedOnExistingSession(r) ==
  /\ pc[r] \in {"except", "done"}
  /\ exc[r] = "session_exists"

\* C12: concurrent turns of one session are serialized, their outcome is
\* that of running them one after the other: while a turn is in progress
\* the assessment it returned stays in the history of its session, where
\* the next turn reads the pending confirmation, and no turn fails on
\* creating a session that another turn has created.
C12_TurnsSerialized ==
  \A r \in Reqs :
    /\ Returned(r) => Recorded(r)
    /\ ~FailedOnExistingSession(r)

\* C21: the successive turns of one conversation reach the Safety executor
\* with the same contextId and so run in the same session: a turn that
\* follows another is evaluated in the session that holds the earlier
\* turn, not in a fresh one.
C21_TurnsShareSession ==
  \A c1, c2 \in ContextIds :
    (sessions[c1].turns # <<>> /\ sessions[c2].turns # <<>>) => c1 = c2

----------------------------------------------------------------------------
(* Properties of analyze_safety                                            *)

====
